---- MODULE Spec2Model ----
(***************************************************************************)
(* Parts search of sourcivity: search_parts (app/api/search/parts.py) and  *)
(* PDFScraper (app/api/utils/pdf_scraper.py); the contact pass of          *)
(* ServiceScraper.scrape_multiple (app/api/utils/service_scraper.py).      *)
(*                                                                         *)
(* A request is one run of search_parts.  The actions are the segments of  *)
(* the coroutine between its awaits; what the awaited collaborator (model, *)
(* search engine, HTTP server, file system) answers is the input of the    *)
(* action, drawn with \E from the small sets defined below.                *)
(*                                                                         *)
(* Python values: Optional[x] is <<>> (None) or <<x>>; a dict is the       *)
(* sequence of its [k, v] items in insertion order; str is a string.       *)
(***************************************************************************)
EXTENDS Integers, Sequences, FiniteSets, TLC

VARIABLES
    pc,                       \* position of search_parts / scrape_multiple
    debug,                    \* request.debug, PDFScraper.debug
    search_queries,           \* parts.py:27
    pdf_search_results,       \* parts.py:67
    taskpc,                   \* position of each scrape_pdf task of the gather
    fetched,                  \* what requests.get answered to each task (pdf_scraper.py:81)
    pdf_content,              \* scrape_pdf's local pdf_content, per task
    results,                  \* the result dict of each scrape_pdf task
    failed_results,           \* pdf_scraper.py:253
    spec_extractable_results, \* pdf_scraper.py:254
    top_results,              \* pdf_scraper.py:302
    pass1_results,            \* pdf_scraper.py:356
    selected_specs,           \* pdf_scraper.py:477
    specs,                    \* pdf_scraper.py:314, what extract_standardized_specs returned
    scrape_results,           \* parts.py:110
    response,                 \* the PartSearchResponse returned
    raised,                   \* the exception search_parts ended with
    ai_calls,                 \* the model calls made so far, in order
    response_text,            \* pdf_scraper.py:536, what the model answered in Pass 3
    \* the text of one document on its way into a prompt
    tpc,                      \* which prompt was built
    pdf_md,                   \* pdf_scraper.py:136 and 520, the document's markdown
    prompt_text,              \* pdf_scraper.py:153 and 522, the text placed in the prompt
    regex_text,               \* pdf_scraper.py:364, the text Pass 1 searches for spec lines
    \* ServiceScraper.scrape_multiple (app/api/utils/service_scraper.py)
    spc,                      \* position of scrape_multiple
    urls,                     \* service_scraper.py:158
    page_texts,               \* service_scraper.py:170
    service_results,          \* service_scraper.py:171, results
    heap,                     \* the dict objects results[i]["services"] refer to
    service_response,         \* service_scraper.py:293, what the model answered
    standardized_services,    \* service_scraper.py:198, as references into heap
    cursor,                   \* service_scraper.py:209, the record of the contact pass
    probes,                   \* the crawls and HEAD requests of the contact pass
    \* GroqClient.query (app/services/groq_client.py)
    gpc,                      \* position of query
    retries,                  \* groq_client.py:19
    attempts,                 \* what each call of _query did, in order
    query_result,             \* the value query returned
    query_raised,             \* the exception query raised
    \* search_datasheets (app/api/search/datasheets.py)
    fpc,                      \* position of search_datasheets
    max_results,              \* datasheets.py:43
    supplier_info,            \* datasheets.py:45
    pdf_urls,                 \* datasheets.py:46
    url_cursor,               \* the index of the for loop of datasheets.py:51
    validated_with_scores,    \* datasheets.py:48
    validated,                \* datasheets.py:93
    \* SpecComparator.create_comparison_table (python-backend/spec_comparator.py)
    cpc,                      \* position of create_comparison_table
    scraped_results,          \* spec_comparator.py:45
    comparison                \* spec_comparator.py:59

partsVars == <<pc, debug, search_queries, pdf_search_results, taskpc, fetched, pdf_content,
               results, failed_results, spec_extractable_results, top_results,
               pass1_results, selected_specs, specs, scrape_results, response,
               raised, ai_calls, response_text>>

textVars == <<tpc, pdf_md, prompt_text, regex_text>>

serviceVars == <<spc, urls, page_texts, service_results, heap, service_response,
                 standardized_services, cursor, probes>>

groqVars == <<gpc, retries, attempts, query_result, query_raised>>

finderVars == <<fpc, max_results, supplier_info, pdf_urls, url_cursor, validated_with_scores, validated>>

comparatorVars == <<cpc, scraped_results, comparison>>

toolVars == <<groqVars, finderVars, comparatorVars>>

otherVars == <<textVars, serviceVars, toolVars>>

vars == <<partsVars, textVars, serviceVars, toolVars>>

(***************************************************************************)
(* Bounds of the model                                                     *)
(***************************************************************************)
MaxResults == 3          \* results the search engine returns, at most
MaxAcquireResults == 2   \* the same, in the specification of one acquisition
MaxRankResults == 6      \* the same, in the specification of the ranking
MaxRuns == 2             \* runs of equal characters in a document text, at most
MaxPages == 2            \* supplier pages handed to the service scraper, at most
Scores == {1, 2}         \* relevance scores the search engine gives

(***************************************************************************)
(* Constants of the program                                                *)
(***************************************************************************)
MinPdfBytes == 1024
MaxPdfPages == 10
MinMarkdownChars == 100
TopSearchResults == 10
TopPdfs == 5
MinComparablePdfs == 3
MaxPromptChars == 20000

(***************************************************************************)
(* Python values                                                           *)
(***************************************************************************)
None == <<>>
Some(x) == <<x>>
Min(a, b) == IF a < b THEN a ELSE b

\* bool(o) of an Optional[str]: None and "" are false
Truthy(o) == o # None /\ o[1] # ""

Item(k, v) == [k |-> k, v |-> v]
DictKeys(d) == [i \in 1..Len(d) |-> d[i].k]
DictKeySet(d) == {d[i].k : i \in 1..Len(d)}
DictHas(d, k) == k \in DictKeySet(d)
DictGet(d, k, default) ==
    IF DictHas(d, k) THEN d[CHOOSE i \in 1..Len(d) : d[i].k = k].v ELSE default

SeqToSet(s) == {s[i] : i \in 1..Len(s)}
Take(s, n) == SubSeq(s, 1, Min(n, Len(s)))

RECURSIVE SelectIdx(_, _, _)
\* [s[i] for i in order if i in keep]
SelectIdx(s, keep, i) ==
    IF i > Len(s) THEN <<>>
    ELSE (IF i \in keep THEN <<s[i]>> ELSE <<>>) \o SelectIdx(s, keep, i + 1)

RECURSIVE Dedupe(_, _)
\* first occurrences, order kept
Dedupe(s, seen) ==
    IF s = <<>> THEN <<>>
    ELSE IF Head(s) \in seen THEN Dedupe(Tail(s), seen)
    ELSE <<Head(s)>> \o Dedupe(Tail(s), seen \cup {Head(s)})

\* list.sort(key=score, reverse=True): stable, equal scores keep their order
InsertByScore(sorted, x) ==
    LET n == Cardinality({i \in 1..Len(sorted) : sorted[i].score >= x.score})
    IN  SubSeq(sorted, 1, n) \o <<x>> \o SubSeq(sorted, n + 1, Len(sorted))

RECURSIVE SortByScoreDesc(_)
SortByScoreDesc(s) ==
    IF s = <<>> THEN <<>>
    ELSE InsertByScore(SortByScoreDesc(SubSeq(s, 1, Len(s) - 1)), s[Len(s)])

(***************************************************************************)
(* The web: what a URL answers.  A response either fails in requests.get / *)
(* raise_for_status or carries a body; a body is described by what the     *)
(* code reads of it.                                                       *)
(***************************************************************************)
UrlOf(i) == "https://host" \o ToString(i) \o ".example/ds.pdf"

Line(kind, key, value) == [kind |-> kind, key |-> key, value |-> value]

\* the three documents of the model, by URL number
DocLines(i) ==
    CASE i % 3 = 1 -> << Line("colon", "Voltage", "5 V"),
                         Line("colon", "Weight", "2 kg"),
                         Line("colon", "Revision", "B"),
                         Line("table", "Current", "1 A") >>
      [] i % 3 = 2 -> << Line("table", "Parameter", "Value"),
                         Line("colon", "voltage", "3 V"),
                         Line("colon", "Weight", "1 kg"),
                         Line("colon", "Weight", "1 kg") >>
      [] OTHER     -> << Line("colon", "Voltage", "12 V"),
                         Line("table", "Pressure", "--"),
                         Line("colon", "Note", "see page 2"),
                         Line("colon", "Weight", "") >>

Body(i, magic, size, opens, pages, pageChars, pageStripped) ==
    [kind |-> "body", error |-> "", magic |-> magic, size |-> size,
     opens |-> opens, pages |-> pages, pageChars |-> pageChars,
     pageStripped |-> pageStripped, lines |-> DocLines(i)]

Failure(msg) ==
    [kind |-> "raise", error |-> msg, magic |-> FALSE, size |-> 0,
     opens |-> FALSE, pages |-> 0, pageChars |-> 0, pageStripped |-> 0,
     lines |-> <<>>]

GoodBody(i) == Body(i, TRUE, 4096, TRUE, 2, 900, 800)

\* answers used when a whole batch is acquired
BatchResponses(i) ==
    { Failure("Read timed out"),
      Body(i, FALSE, 4096, FALSE, 0, 0, 0),
      Body(i, TRUE, 4096, TRUE, 1, 120, 40),
      GoodBody(i) }

\* answers used when the ranking of a larger batch is studied
RankResponses(i) == { Failure("Read timed out"), GoodBody(i) }

\* answers used when one acquisition is studied
AllResponses(i) ==
    BatchResponses(i) \cup
    { Failure("404 Client Error"),
      Body(i, TRUE, 1023, TRUE, 1, 900, 800),
      Body(i, FALSE, 512, FALSE, 0, 0, 0),
      Body(i, TRUE, 1024, TRUE, 1, 100, 100),
      Body(i, TRUE, 4096, FALSE, 0, 0, 0),
      Body(i, TRUE, 4096, TRUE, 0, 0, 0),
      Body(i, TRUE, 4096, TRUE, 1, 0, 0),
      Body(i, TRUE, 4096, TRUE, 1, 99, 99),
      Body(i, TRUE, 8192, TRUE, 15, 900, 800) }

(***************************************************************************)
(* PDFScraper.download_pdf, extract_markdown_from_pdf, scrape_pdf          *)
(***************************************************************************)
Ok(v) == [ok |-> TRUE, value |-> Some(v), error |-> ""]
Raise(msg) == [ok |-> FALSE, value |-> None, error |-> msg]

\* download_pdf without the size check of pdf_scraper.py:93
DownloadPdfNoSizeCheck(url, resp) ==
    LET wrap(m) == Raise("Failed to download PDF from " \o url \o ": " \o m)
    IN  IF resp.kind = "raise" THEN wrap(resp.error)
        ELSE IF ~resp.magic
             THEN wrap("URL does not point to a valid PDF file (missing PDF header)")
        ELSE Ok(resp)

download_pdf(url, resp) ==
    LET wrap(m) == Raise("Failed to download PDF from " \o url \o ": " \o m)
    IN  IF resp.kind = "raise" THEN wrap(resp.error)
        ELSE IF ~resp.magic
             THEN wrap("URL does not point to a valid PDF file (missing PDF header)")
        ELSE IF resp.size < MinPdfBytes
             THEN wrap("PDF file too small (" \o ToString(resp.size)
                       \o " bytes) - likely corrupted")
        ELSE Ok(resp)

\* pymupdf4llm.to_markdown of the first n pages
ToMarkdown(body, n) ==
    [chars |-> n * body.pageChars, stripped |-> n * body.pageStripped,
     lines |-> body.lines]

extract_markdown_from_pdf(body) ==
    LET wrap(m) == Raise("Failed to extract markdown from PDF: " \o m)
        md == ToMarkdown(body, Min(body.pages, MaxPdfPages))
    IN  IF ~body.opens THEN wrap("Failed to open stream")
        ELSE IF body.pages = 0 THEN wrap("PDF has no pages")
        ELSE IF md.chars = 0 \/ md.stripped < MinMarkdownChars
             THEN wrap("PDF extraction produced no meaningful content (only "
                       \o ToString(md.chars) \o " chars)")
        ELSE Ok(md)

\* pdf_scraper.py:194
NewResult(url) ==
    [url |-> url, md |-> None, specs |-> <<>>, error |-> None, score |-> None,
     manufacturer |-> None, product_name |-> None]

(***************************************************************************)
(* str methods used by the code                                            *)
(***************************************************************************)
LowerChar(c) ==
    CASE c = "A" -> "a" [] c = "B" -> "b" [] c = "C" -> "c" [] c = "D" -> "d"
      [] c = "E" -> "e" [] c = "F" -> "f" [] c = "G" -> "g" [] c = "H" -> "h"
      [] c = "I" -> "i" [] c = "J" -> "j" [] c = "K" -> "k" [] c = "L" -> "l"
      [] c = "M" -> "m" [] c = "N" -> "n" [] c = "O" -> "o" [] c = "P" -> "p"
      [] c = "Q" -> "q" [] c = "R" -> "r" [] c = "S" -> "s" [] c = "T" -> "t"
      [] c = "U" -> "u" [] c = "V" -> "v" [] c = "W" -> "w" [] c = "X" -> "x"
      [] c = "Y" -> "y" [] c = "Z" -> "z" [] OTHER -> c

RECURSIVE Lower(_)
Lower(s) ==
    IF Len(s) = 0 THEN ""
    ELSE LowerChar(SubSeq(s, 1, 1)) \o Lower(SubSeq(s, 2, Len(s)))

EndsWith(s, suffix) ==
    Len(s) >= Len(suffix) /\ SubSeq(s, Len(s) - Len(suffix) + 1, Len(s)) = suffix

StartsWith(s, prefix) ==
    Len(s) >= Len(prefix) /\ SubSeq(s, 1, Len(prefix)) = prefix

Contains(s, sub) ==
    \E i \in 1..(Len(s) - Len(sub) + 1) : SubSeq(s, i, i + Len(sub) - 1) = sub

(***************************************************************************)
(* PDFScraper.extract_specs_with_regex: md.lines are the matches of the    *)
(* two patterns, each already split into its groups and stripped.          *)
(***************************************************************************)
SkipWords == {"note", "figure", "table", "revision", "page", "col"}
HeaderWords == {"parameter", "specification", "description", "value", "unit",
                "min", "max", "typ"}

KeepColon(l) ==
    /\ Len(l.key) < 50
    /\ Len(l.value) > 0
    /\ Len(l.value) < 200
    /\ ~\E w \in SkipWords : Contains(Lower(l.key), w)

KeepTable(l) ==
    /\ l.key # ""
    /\ l.value # ""
    /\ ~StartsWith(l.key, "-")
    /\ ~StartsWith(l.value, "-")
    /\ Len(l.key) < 50
    /\ Lower(l.key) \notin HeaderWords

SpecString(l) == [key |-> l.key, text |-> l.key \o ": " \o l.value]

extract_specs_with_regex(md) ==
    LET colon == {i \in 1..Len(md.lines) :
                    md.lines[i].kind = "colon" /\ KeepColon(md.lines[i])}
        table == {i \in 1..Len(md.lines) :
                    md.lines[i].kind = "table" /\ KeepTable(md.lines[i])}
        all   == [i \in 1..Len(md.lines) |-> SpecString(md.lines[i])]
    IN  SelectIdx(all, colon, 1) \o SelectIdx(all, table, 1)

(***************************************************************************)
(* What the collaborators answer                                           *)
(***************************************************************************)
\* ai_client.generate: raises, or returns text; the text has no match of the
\* JSON pattern, a match json.loads rejects, or a match that parses to value
AiRaise == [kind |-> "raise", value |-> <<>>]
AiNoJson == [kind |-> "nojson", value |-> <<>>]
AiBadJson == [kind |-> "badjson", value |-> <<>>]
AiJson(v) == [kind |-> "json", value |-> v]

QueryResponses ==
    { AiRaise, AiNoJson, AiBadJson,
      AiJson(<<>>),
      AiJson(<<Item("search_query", "ai query")>>) }

SelectedSpec(key, name) ==
    << Item("standardized_key", key), Item("display_name", name),
       Item("reason", "common"), Item("coverage", "3/3") >>

GoodSelection ==
    << SelectedSpec("voltage_v", "Voltage (V)"), SelectedSpec("weight_kg", "Weight (kg)") >>

Pass2Responses ==
    { AiRaise, AiNoJson, AiBadJson,
      AiJson(<<>>),
      AiJson(<<Item("selected_specs", <<>>)>>),
      AiJson(<<Item("selected_specs", << <<Item("standardized_key", "voltage_v")>> >>)>>),
      AiJson(<<Item("selected_specs", GoodSelection)>>) }

\* one element of the Pass 3 array; an absent field is None
Entry(manufacturer, product_name, specifications) ==
    [manufacturer |-> manufacturer, product_name |-> product_name,
     specifications |-> specifications]

Pass3Entries ==
    { Entry(Some("Acme"), Some("A-1"),
            Some(<<Item("Voltage", "5 V"), Item("weight", "N/A")>>)),
      Entry(Some("Bolt"), None,
            Some(<<Item("Flow Rate", "2 l/s"), Item("error", "unreadable table"),
                   Item("Voltage", "3 V")>>)),
      Entry(None, None, None) }

RECURSIVE SeqsUpTo(_, _)
SeqsUpTo(S, n) ==
    IF n = 0 THEN {<<>>}
    ELSE LET shorter == SeqsUpTo(S, n - 1)
         IN  shorter \cup {Append(s, x) : s \in {t \in shorter : Len(t) = n - 1}, x \in S}

\* n datasheets were sent; the array may be shorter or longer
Pass3Responses(n) ==
    { AiRaise, AiNoJson, AiBadJson } \cup { AiJson(a) : a \in SeqsUpTo(Pass3Entries, n + 1) }

\* the Pass 3 answers used when the ranking is studied: no array, or one
\* entry per datasheet sent
RankPass3Responses(n) ==
    { AiNoJson,
      AiJson([i \in 1..n |-> Entry(Some("Acme"), Some("A-1"), Some(<<Item("Voltage", "5 V")>>))]) }

PageUrl(i) == "https://host" \o ToString(i) \o ".example/products"
UrlNumber(url) ==
    CHOOSE i \in 1..(MaxResults + MaxAcquireResults + MaxRankResults) : UrlOf(i) = url

SearchResult(i, isPdf, score) ==
    [url |-> IF isPdf THEN UrlOf(i) ELSE PageUrl(i), score |-> Some(score)]

\* the result lists of length n: result i is a PDF or a page, with a score
SearchResultLists(n) ==
    { [i \in 1..n |-> SearchResult(i, f[i][1], f[i][2])] :
        f \in [1..n -> BOOLEAN \X Scores] }

(***************************************************************************)
(* search_parts, up to the call of scrape_multiple                         *)
(***************************************************************************)
InitParts ==
    /\ pc = "query"
    /\ debug \in BOOLEAN
    /\ search_queries = <<>>
    /\ pdf_search_results = <<>>
    /\ taskpc = <<>>
    /\ fetched = <<>>
    /\ pdf_content = <<>>
    /\ results = <<>>
    /\ failed_results = <<>>
    /\ spec_extractable_results = <<>>
    /\ top_results = <<>>
    /\ pass1_results = <<>>
    /\ selected_specs = <<>>
    /\ specs = <<>>
    /\ scrape_results = <<>>
    /\ response = None
    /\ raised = None
    /\ ai_calls = <<>>
    /\ response_text = None

\* no document text is being prepared
TextOff ==
    /\ tpc = "off"
    /\ pdf_md = <<>>
    /\ prompt_text = None
    /\ regex_text = None

\* no service search is running
ServiceOff ==
    /\ spc = "off"
    /\ urls = <<>>
    /\ page_texts = <<>>
    /\ service_results = <<>>
    /\ heap = <<>>
    /\ service_response = None
    /\ standardized_services = <<>>
    /\ cursor = 0
    /\ probes = <<>>

\* GroqClient.query is not running
GroqOff ==
    /\ gpc = "off"
    /\ retries = 0
    /\ attempts = <<>>
    /\ query_result = None
    /\ query_raised = None

\* no datasheet search is running
FinderOff ==
    /\ fpc = "off"
    /\ max_results = 0
    /\ supplier_info = None
    /\ pdf_urls = <<>>
    /\ url_cursor = 0
    /\ validated_with_scores = <<>>
    /\ validated = None

\* no comparison table is being built
ComparatorOff ==
    /\ cpc = "off"
    /\ scraped_results = <<>>
    /\ comparison = None

ToolsOff == GroqOff /\ FinderOff /\ ComparatorOff

Init == InitParts /\ TextOff /\ ServiceOff /\ ToolsOff

DefaultQuery == "datasheet filetype:pdf"

\* parts.py:49-62
QueryFromResponse(r) ==
    IF r.kind = "json" THEN DictGet(r.value, "search_query", DefaultQuery)
    ELSE DefaultQuery

\* request.generate_ai_search_prompt is false
PlainQuery ==
    /\ pc = "query"
    /\ search_queries' = <<DefaultQuery>>
    /\ pc' = "search"
    /\ UNCHANGED <<otherVars, response_text, debug, pdf_search_results, taskpc, fetched, pdf_content, results,
                   failed_results, spec_extractable_results, top_results,
                   pass1_results, selected_specs, specs, scrape_results,
                   response, raised, ai_calls>>

\* request.generate_ai_search_prompt is true: the model is asked for a query
GenerateQuery ==
    /\ pc = "query"
    /\ \E r \in QueryResponses :
         search_queries' = <<QueryFromResponse(r)>>
    /\ ai_calls' = Append(ai_calls, "query")
    /\ pc' = "search"
    /\ UNCHANGED <<otherVars, response_text, debug, pdf_search_results, taskpc, fetched, pdf_content, results,
                   failed_results, spec_extractable_results, top_results,
                   pass1_results, selected_specs, specs, scrape_results,
                   response, raised>>

\* parts.py:77-79
LooksLikePdf(url) ==
    LET url_lower == Lower(url)
    IN  EndsWith(url_lower, ".pdf") \/ Contains(url_lower, ".pdf?")
        \/ Contains(url_lower, ".pdf#")

\* parts.py:91, x.score if x.score else 0.0
ScoreKey(r) == [score |-> IF r.score = None \/ r.score[1] = 0 THEN 0 ELSE r.score[1],
                item |-> r]

ValidPdfResults(found) ==
    SelectIdx(found, {i \in 1..Len(found) : LooksLikePdf(found[i].url)}, 1)

TopByScore(found, n) ==
    LET keyed == [i \in 1..Len(found) |-> ScoreKey(found[i])]
        sorted == SortByScoreDesc(keyed)
    IN  Take([i \in 1..Len(sorted) |-> sorted[i].item], n)

\* pdf_scraper.py:194
InitialResults(found) == [i \in 1..Len(found) |-> NewResult(found[i].url)]

\* the search engine raises: nothing in search_parts catches it
SearchFails ==
    /\ pc = "search"
    /\ raised' = Some("search engine error")
    /\ pc' = "raised"
    /\ UNCHANGED <<otherVars, response_text, debug, search_queries, pdf_search_results, taskpc, fetched, pdf_content,
                   results, failed_results, spec_extractable_results, top_results,
                   pass1_results, selected_specs, specs, scrape_results,
                   response, ai_calls>>

\* parts.py:66-110 and pdf_scraper.py:252-264: filter, sort, cut, start the tasks
Search(maxResults) ==
    /\ pc = "search"
    /\ \E n \in 0..maxResults : \E found \in SearchResultLists(n) :
         LET valid == ValidPdfResults(found)
             top   == TopByScore(valid, TopSearchResults)
         IN  IF valid = <<>>
             THEN /\ raised' = Some("No PDF URLs found for search queries")
                  /\ pc' = "raised"
                  /\ UNCHANGED <<pdf_search_results, taskpc, fetched, pdf_content, results>>
             ELSE /\ pdf_search_results' = top
                  /\ taskpc' = [i \in 1..Len(top) |-> "ready"]
                  /\ fetched' = [i \in 1..Len(top) |-> None]
                  /\ pdf_content' = [i \in 1..Len(top) |-> None]
                  /\ results' = InitialResults(top)
                  /\ pc' = "gather"
                  /\ UNCHANGED raised
    /\ UNCHANGED <<otherVars, response_text, debug, search_queries, failed_results, spec_extractable_results,
                   top_results, pass1_results, selected_specs, specs,
                   scrape_results, response, ai_calls>>

(***************************************************************************)
(* The tasks of asyncio.gather.  scrape_pdf is called with                 *)
(* extract_specs=False and download_pdf blocks in requests.get, so a task  *)
(* has no await: the event loop runs the tasks one after the other, in the *)
(* order they were created.                                                *)
(***************************************************************************)
Tasks == 1..Len(taskpc)

MayRun(i) == \A j \in 1..(i - 1) : taskpc[j] = "done"

\* scrape_pdf with an except clause that records nothing
FailWithSwallowed(result, msg) == result

\* pdf_scraper.py:227-230
FailWith(result, msg) == [result EXCEPT !.error = Some(msg)]

\* pdf_scraper.py:203 and 81: the task is run and calls requests.get, which
\* blocks the thread of the event loop until the server has answered
TaskRequest(i) ==
    /\ pc = "gather"
    /\ taskpc[i] = "ready"
    /\ MayRun(i)
    /\ taskpc' = [taskpc EXCEPT ![i] = "requesting"]
    /\ UNCHANGED <<otherVars, response_text, pc, debug, search_queries, pdf_search_results, fetched,
                   pdf_content, results, failed_results, spec_extractable_results,
                   top_results, pass1_results, selected_specs, specs,
                   scrape_results, response, raised, ai_calls>>

\* pdf_scraper.py:81-98 and 227-230: requests.get returns or raises
TaskDownload(i, answers) ==
    /\ pc = "gather"
    /\ taskpc[i] = "requesting"
    /\ \E resp \in answers :
         LET got == download_pdf(results[i].url, resp)
         IN  /\ fetched' = [fetched EXCEPT ![i] = Some(resp)]
             /\ IF got.ok
                THEN /\ pdf_content' = [pdf_content EXCEPT ![i] = got.value]
                     /\ taskpc' = [taskpc EXCEPT ![i] = "downloaded"]
                     /\ UNCHANGED results
                ELSE /\ results' = [results EXCEPT ![i] = FailWith(@, got.error)]
                     /\ taskpc' = [taskpc EXCEPT ![i] = "done"]
                     /\ UNCHANGED pdf_content
    /\ UNCHANGED <<otherVars, response_text, pc, debug, search_queries, pdf_search_results, failed_results,
                   spec_extractable_results, top_results, pass1_results,
                   selected_specs, specs, scrape_results, response, raised, ai_calls>>

\* pdf_scraper.py:206-211
WithMarkdown(result, body) ==
    LET got == extract_markdown_from_pdf(body)
    IN  IF ~got.ok THEN FailWith(result, got.error)
        ELSE IF got.value[1].stripped = 0
             THEN FailWith(result, "No markdown could be extracted from pdf at "
                                   \o result.url)
        ELSE [result EXCEPT !.md = got.value]

\* pdf_scraper.py:214-221: the debug file is written after result["md"] is set
AfterDebugWrite(result, written) ==
    IF written THEN result
    ELSE FailWith(result, "[Errno 28] No space left on device")

\* pdf_scraper.py:206-230
TaskExtract(i) ==
    /\ pc = "gather"
    /\ taskpc[i] = "downloaded"
    /\ LET r == WithMarkdown(results[i], pdf_content[i][1])
       IN  IF debug /\ r.error = None
           THEN \E written \in BOOLEAN :
                  results' = [results EXCEPT ![i] = AfterDebugWrite(r, written)]
           ELSE results' = [results EXCEPT ![i] = r]
    /\ pdf_content' = [pdf_content EXCEPT ![i] = None]
    /\ taskpc' = [taskpc EXCEPT ![i] = "done"]
    /\ UNCHANGED <<otherVars, response_text, pc, debug, search_queries, pdf_search_results, fetched, failed_results,
                   spec_extractable_results, top_results, pass1_results,
                   selected_specs, specs, scrape_results, response, raised, ai_calls>>

(***************************************************************************)
(* scrape_multiple after the gather                                        *)
(***************************************************************************)
\* parts.py:104
ScoreOf(found) == IF found.score # None THEN found.score[1] ELSE 0

\* pdf_scraper.py:279-287: the score is attached to every result
Scored(i) == [results[i] EXCEPT !.score = Some(ScoreOf(pdf_search_results[i]))]

\* pdf_scraper.py:279, result.get("error")
IsFailed(result) == Truthy(result.error)

FailedOf(all) == SelectIdx(all, {i \in 1..Len(all) : IsFailed(all[i])}, 1)
ExtractableOf(all) == SelectIdx(all, {i \in 1..Len(all) : ~IsFailed(all[i])}, 1)

\* the sort of pdf_scraper.py:301 without the cut of line 302
TopPdfResultsUncut(extractable) ==
    LET keyed == [i \in 1..Len(extractable) |->
                    [score |-> extractable[i].score[1], item |-> extractable[i]]]
        sorted == SortByScoreDesc(keyed)
    IN  [i \in 1..Len(sorted) |-> sorted[i].item]

\* pdf_scraper.py:301-302
TopPdfResults(extractable) ==
    LET keyed == [i \in 1..Len(extractable) |->
                    [score |-> extractable[i].score[1], item |-> extractable[i]]]
        sorted == SortByScoreDesc(keyed)
    IN  Take([i \in 1..Len(sorted) |-> sorted[i].item], TopPdfs)

\* the threshold of pdf_scraper.py:309 off by one
EnoughToCompareTwo(top) == Len(top) >= MinComparablePdfs - 1

\* pdf_scraper.py:309
EnoughToCompare(top) == Len(top) >= MinComparablePdfs

\* pdf_scraper.py:266-318.  scrape_pdf catches every Exception itself, so the
\* gather hands back dicts only and the branch of line 269 is never taken.
ProcessResults ==
    /\ pc = "gather"
    /\ \A i \in Tasks : taskpc[i] = "done"
    /\ LET all == [i \in Tasks |-> Scored(i)]
           failed == FailedOf(all)
           extractable == ExtractableOf(all)
           top == TopPdfResults(extractable)
       IN  /\ failed_results' = failed
           /\ spec_extractable_results' = extractable
           /\ IF Len(extractable) = 0
              THEN /\ scrape_results' = failed
                   /\ pc' = "respond"
                   /\ UNCHANGED top_results
              ELSE IF ~EnoughToCompare(top)
              THEN /\ top_results' = top
                   /\ scrape_results' = top \o failed
                   /\ pc' = "respond"
              ELSE /\ top_results' = top
                   /\ pc' = "pass1"
                   /\ UNCHANGED scrape_results
    /\ UNCHANGED <<otherVars, response_text, debug, search_queries, pdf_search_results, taskpc, fetched, pdf_content,
                   results, pass1_results, selected_specs, specs, response,
                   raised, ai_calls>>

(***************************************************************************)
(* extract_standardized_specs                                              *)
(***************************************************************************)
Placeholder == Entry(Some("Unknown"), Some("Unknown"), Some(<<>>))
Placeholders(n) == [i \in 1..n |-> Placeholder]

\* bool(md) of an Optional[str] whose text is described by its lengths
HasText(md) == md # None /\ md[1].chars > 0

\* pdf_scraper.py:358-376
Pass1Of(md) == IF ~HasText(md) THEN <<>> ELSE Dedupe(extract_specs_with_regex(md[1]), {})

\* pdf_scraper.py:320-326
Assembled(top, out) ==
    [i \in 1..Len(out) |->
        [top[i] EXCEPT
           !.specs = IF out[i].specifications # None THEN out[i].specifications[1] ELSE <<>>,
           !.manufacturer = IF out[i].manufacturer # None THEN out[i].manufacturer
                            ELSE Some("Unknown"),
           !.product_name = IF out[i].product_name # None THEN out[i].product_name
                            ELSE Some("Unknown Product")]]

\* pdf_scraper.py:346-386; the debug files of Pass 1 are written outside any try
Pass1 ==
    /\ pc = "pass1"
    /\ LET pdf_mds == [i \in 1..Len(top_results) |-> top_results[i].md]
       IN  IF ~\E i \in 1..Len(pdf_mds) : HasText(pdf_mds[i])
           THEN /\ specs' = Placeholders(Len(pdf_mds))
                /\ scrape_results' = Assembled(top_results, Placeholders(Len(pdf_mds)))
                /\ pc' = "respond"
                /\ UNCHANGED <<pass1_results, raised>>
           ELSE \E written \in (IF debug THEN BOOLEAN ELSE {TRUE}) :
                  IF written
                  THEN /\ pass1_results' = [i \in 1..Len(pdf_mds) |-> Pass1Of(pdf_mds[i])]
                       /\ pc' = "pass2"
                       /\ UNCHANGED <<specs, scrape_results, raised>>
                  ELSE /\ raised' = Some("[Errno 28] No space left on device")
                       /\ pc' = "raised"
                       /\ UNCHANGED <<pass1_results, specs, scrape_results>>
    /\ UNCHANGED <<otherVars, response_text, debug, search_queries, pdf_search_results, taskpc, fetched, pdf_content,
                   results, failed_results, spec_extractable_results, top_results,
                   selected_specs, response, ai_calls>>

\* pdf_scraper.py:481-482: the keys the print loop reads of each selected spec
PrintedKeys == {"standardized_key", "display_name", "coverage", "reason"}

\* pdf_scraper.py:447-500
SelectedFromResponse(r, written) ==
    IF r.kind # "json" THEN <<>>
    ELSE LET selected == DictGet(r.value, "selected_specs", <<>>)
         IN  IF \E i \in 1..Len(selected) : ~(PrintedKeys \subseteq DictKeySet(selected[i]))
             THEN <<>>
             ELSE IF ~written THEN <<>>
             ELSE selected

\* pdf_scraper.py:502-511: pass1_results holds lists, and the loop calls
\* result.get("specifications") on the first of them
FallbackSelection(pass1) ==
    IF Len(pass1) = 0 THEN Ok(<<>>)
    ELSE Raise("'list' object has no attribute 'get'")

\* pdf_scraper.py:447-533
Pass2 ==
    /\ pc = "pass2"
    /\ ai_calls' = Append(ai_calls, "pass2")
    /\ \E r \in Pass2Responses : \E written \in (IF debug THEN BOOLEAN ELSE {TRUE}) :
         LET selected == SelectedFromResponse(r, written)
             chosen == IF selected = <<>> THEN FallbackSelection(pass1_results)
                       ELSE Ok(selected)
         IN  IF chosen.ok
             THEN /\ selected_specs' = chosen.value[1]
                  /\ pc' = "pass3"
                  /\ UNCHANGED raised
             ELSE /\ raised' = Some(chosen.error)
                  /\ pc' = "raised"
                  /\ UNCHANGED selected_specs
    /\ UNCHANGED <<otherVars, response_text, debug, search_queries, pdf_search_results, taskpc, fetched, pdf_content,
                   results, failed_results, spec_extractable_results, top_results,
                   pass1_results, specs, scrape_results, response>>

RECURSIVE PadTo(_, _)
\* pdf_scraper.py:582-583
PadTo(a, n) == IF Len(a) >= n THEN a ELSE PadTo(Append(a, Placeholder), n)

\* pdf_scraper.py:535-598 without the padding loop of lines 582-583
SpecsFromResponseUnpadded(r, n, written) ==
    IF r.kind # "json" THEN Placeholders(n)
    ELSE IF ~written THEN Placeholders(n)
    ELSE Take(r.value, n)

\* pdf_scraper.py:535-598
SpecsFromResponse(r, n, written) ==
    IF r.kind # "json" THEN Placeholders(n)
    ELSE IF ~written THEN Placeholders(n)
    ELSE Take(PadTo(r.value, n), n)

\* pdf_scraper.py:535-598 and 320-329
Pass3With(answers) ==
    /\ pc = "pass3"
    /\ ai_calls' = Append(ai_calls, "pass3")
    /\ \E r \in answers :
       \E written \in (IF debug THEN BOOLEAN ELSE {TRUE}) :
         LET out == SpecsFromResponse(r, Len(top_results), written)
         IN  /\ response_text' = Some(r)
             /\ specs' = out
             /\ scrape_results' = Assembled(top_results, out)
    /\ pc' = "respond"
    /\ UNCHANGED <<otherVars, debug, search_queries, pdf_search_results, taskpc, fetched, pdf_content,
                   results, failed_results, spec_extractable_results, top_results,
                   pass1_results, selected_specs, response, raised>>

Pass3 == Pass3With(Pass3Responses(Len(top_results)))

(***************************************************************************)
(* search_parts after scrape_multiple returned                             *)
(***************************************************************************)
\* models.py:28-35; parts.py:120.  A field PartResponse does not declare (score)
\* is ignored by pydantic.
PartResponse(result) ==
    [url |-> result.url, contact_url |-> None, md |-> result.md,
     specs |-> Some(result.specs), manufacturer |-> result.manufacturer,
     product_name |-> result.product_name, error |-> result.error]

RECURSIVE KeysInOrder(_)
KeysInOrder(parts) ==
    IF parts = <<>> THEN <<>>
    ELSE (IF Head(parts).specs # None THEN DictKeys(Head(parts).specs[1]) ELSE <<>>)
         \o KeysInOrder(Tail(parts))

\* parts.py:124-131 without the test of line 128 on "error"
OrderedColumnsWithError(parts) == Dedupe(KeysInOrder(parts), {})

\* parts.py:124-131
OrderedColumns(parts) ==
    LET keys == KeysInOrder(parts)
    IN  Dedupe(SelectIdx(keys, {i \in 1..Len(keys) : keys[i] # "error"}, 1), {})

\* parts.py:113-145
Respond ==
    /\ pc = "respond"
    /\ LET parts == [i \in 1..Len(scrape_results) |-> PartResponse(scrape_results[i])]
       IN  response' = Some([spec_column_names |-> OrderedColumns(parts),
                             parts |-> parts])
    /\ pc' = "done"
    /\ UNCHANGED <<otherVars, response_text, debug, search_queries, pdf_search_results, taskpc, fetched, pdf_content,
                   results, failed_results, spec_extractable_results, top_results,
                   pass1_results, selected_specs, specs, scrape_results,
                   raised, ai_calls>>

(***************************************************************************)
(* Specifications                                                          *)
(***************************************************************************)
Next ==
    \/ PlainQuery
    \/ GenerateQuery
    \/ SearchFails
    \/ Search(MaxResults)
    \/ \E i \in Tasks : TaskRequest(i)
    \/ \E i \in Tasks : TaskDownload(i, BatchResponses(UrlNumber(results[i].url)))
    \/ \E i \in Tasks : TaskExtract(i)
    \/ ProcessResults
    \/ Pass1
    \/ Pass2
    \/ Pass3
    \/ Respond

Spec == Init /\ [][Next]_vars

\* one acquisition in detail: a batch of at most MaxAcquireResults sources,
\* every answer of AllResponses
NextAcquire ==
    \/ PlainQuery
    \/ GenerateQuery
    \/ SearchFails
    \/ Search(MaxAcquireResults)
    \/ \E i \in Tasks : TaskRequest(i)
    \/ \E i \in Tasks : TaskDownload(i, AllResponses(UrlNumber(results[i].url)))
    \/ \E i \in Tasks : TaskExtract(i)
    \/ ProcessResults
    \/ Respond

SpecAcquire == Init /\ [][NextAcquire]_vars

\* the ranking in detail: a batch of at most MaxRankResults sources, each
\* acquired or timed out, debug off
InitRank == Init /\ ~debug

NextRank ==
    \/ PlainQuery
    \/ Search(MaxRankResults)
    \/ \E i \in Tasks : TaskRequest(i)
    \/ \E i \in Tasks : TaskDownload(i, RankResponses(UrlNumber(results[i].url)))
    \/ \E i \in Tasks : TaskExtract(i)
    \/ ProcessResults
    \/ Pass1
    \/ Pass2
    \/ Pass3With(RankPass3Responses(Len(top_results)))
    \/ Respond

SpecRank == InitRank /\ [][NextRank]_vars

(***************************************************************************)
(* The text of a document on its way into a prompt.  A str is written as   *)
(* the sequence of its runs [c, n]: the character c, n times.              *)
(***************************************************************************)
Run(c, n) == [c |-> c, n |-> n]

RunLengths == {1, MaxPromptChars - 1, MaxPromptChars, MaxPromptChars + 1}

Texts == SeqsUpTo({Run(c, n) : c \in {"a", "b"}, n \in RunLengths}, MaxRuns)

RECURSIVE TextLen(_)
\* len(text)
TextLen(text) == IF text = <<>> THEN 0 ELSE Head(text).n + TextLen(Tail(text))

RECURSIVE HeadSlice(_, _)
\* text[:k]
HeadSlice(text, k) ==
    IF text = <<>> \/ k <= 0 THEN <<>>
    ELSE IF Head(text).n <= k
         THEN <<Head(text)>> \o HeadSlice(Tail(text), k - Head(text).n)
    ELSE <<Run(Head(text).c, k)>>

\* pdf_scraper.py:148-149
TruncatedForExtraction(text) ==
    IF TextLen(text) > MaxPromptChars THEN HeadSlice(text, MaxPromptChars) ELSE text

\* the cut of pdf_scraper.py:521 with a limit that lets 20,001 characters pass
TruncatedForPass3Late(md) ==
    IF TextLen(md) > MaxPromptChars + 1 THEN HeadSlice(md, MaxPromptChars) ELSE md

\* pdf_scraper.py:521
TruncatedForPass3(md) ==
    IF TextLen(md) > MaxPromptChars THEN HeadSlice(md, MaxPromptChars) ELSE md

InitText ==
    /\ InitParts
    /\ ~debug
    /\ ServiceOff
    /\ ToolsOff
    /\ tpc = "text"
    /\ pdf_md \in Texts
    /\ prompt_text = None
    /\ regex_text = None

\* pdf_scraper.py:147-153: extract_specs places pdf_md in its prompt
ExtractSpecsPrompt ==
    /\ tpc = "text"
    /\ prompt_text' = Some(TruncatedForExtraction(pdf_md))
    /\ tpc' = "single"
    /\ UNCHANGED <<partsVars, serviceVars, toolVars, pdf_md, regex_text>>

\* pdf_scraper.py:519-522: Pass 3 places every non-empty md in its prompt
Pass3Prompt ==
    /\ tpc = "text"
    /\ prompt_text' = IF pdf_md # <<>> THEN Some(TruncatedForPass3(pdf_md)) ELSE None
    /\ tpc' = "pass3"
    /\ UNCHANGED <<partsVars, serviceVars, toolVars, pdf_md, regex_text>>

\* pdf_scraper.py:359-364: Pass 1 hands every non-empty md to
\* extract_specs_with_regex as it is
Pass1Regex ==
    /\ tpc = "text"
    /\ regex_text' = IF pdf_md # <<>> THEN Some(pdf_md) ELSE None
    /\ tpc' = "pass1"
    /\ UNCHANGED <<partsVars, serviceVars, toolVars, pdf_md, prompt_text>>

NextText ==
    \/ ExtractSpecsPrompt
    \/ Pass3Prompt
    \/ Pass1Regex

SpecText == InitText /\ [][NextText]_vars

(***************************************************************************)
(* ServiceScraper.scrape_multiple.  A dict is an object: results[i] holds  *)
(* a reference into heap, and two references to one object see each       *)
(* other's writes.                                                         *)
(***************************************************************************)
ServiceUrl(i) == "https://supplier" \o ToString(i) \o ".example/services"

\* service_scraper.py:229-230, urlparse: scheme://netloc
Homepage(url) ==
    LET start == CHOOSE i \in 1..(Len(url) - 2) :
                    /\ SubSeq(url, i, i + 2) = "://"
                    /\ \A j \in 1..(i - 1) : SubSeq(url, j, j + 2) # "://"
        slashes == {i \in (start + 3)..Len(url) : SubSeq(url, i, i) = "/"}
        stop == IF slashes = {} THEN Len(url)
                ELSE (CHOOSE i \in slashes : \A j \in slashes : i <= j) - 1
    IN  SubSeq(url, 1, stop)

\* utils.pdf_scraper.derive_contact_url: the cheap guess {scheme}://{host}/contact
derive_contact_url(url) == Homepage(url) \o "/contact"

\* utils.pdf_scraper.find_contact_url: raises, finds no link, or returns one
CrawlAnswers(url) ==
    { [kind |-> "raise", link |-> ""],
      [kind |-> "none", link |-> ""],
      [kind |-> "found", link |-> Homepage(url) \o "/contact-us"] }

\* service_scraper.py:243: requests.head raises or answers with a status
HeadAnswers == {"raise", "200", "404"}

\* one element of the array the model answers with
ServiceEntries ==
    { <<>>,
      <<Item("company_name", "Acme"), Item("contact_url", "https://acme.example/get-quote")>>,
      <<Item("company_name", "Bolt"), Item("contact_url", "/contact-us")>> }

\* n page texts were sent; the array may be shorter or longer
ServiceResponses(n) ==
    { AiRaise, AiNoJson, AiBadJson } \cup { AiJson(a) : a \in SeqsUpTo(ServiceEntries, n + 1) }

\* d[k] = v
DictSet(d, k, v) ==
    IF DictHas(d, k) THEN [i \in 1..Len(d) |-> IF d[i].k = k THEN Item(k, v) ELSE d[i]]
    ELSE Append(d, Item(k, v))

InitService ==
    /\ InitParts
    /\ ~debug
    /\ TextOff
    /\ ToolsOff
    /\ spc = "fetch"
    /\ \E n \in 1..MaxPages : urls = [i \in 1..n |-> ServiceUrl(i)]
    /\ page_texts = <<>>
    /\ service_results = <<>>
    /\ heap = <<>>
    /\ service_response = None
    /\ standardized_services = <<>>
    /\ cursor = 0
    /\ probes = <<>>

\* service_scraper.py:173-194: one round of the first loop.  The text of
\* page k is written k.
ScrapePage ==
    /\ spc = "fetch"
    /\ Len(service_results) < Len(urls)
    /\ LET k == Len(service_results) + 1
           result(error) == [url |-> urls[k], services |-> Len(heap) + 1, error |-> error]
       IN  \/ /\ service_results' = Append(service_results, result(Some("404 Client Error")))
              /\ page_texts' = Append(page_texts, None)
           \/ /\ service_results' =
                    Append(service_results,
                           result(Some("No text could be extracted from page")))
              /\ UNCHANGED page_texts
           \/ /\ service_results' = Append(service_results, result(None))
              /\ page_texts' = Append(page_texts, Some(k))
    /\ heap' = Append(heap, <<>>)
    /\ UNCHANGED <<partsVars, textVars, toolVars, spc, urls, service_response,
                   standardized_services, cursor, probes>>

RECURSIVE PadWithEmpty(_, _)
\* service_scraper.py:306-307
PadWithEmpty(a, n) == IF Len(a) >= n THEN a ELSE PadWithEmpty(Append(a, <<>>), n)

\* service_scraper.py:266-319: the dict objects extract_standardized_services
\* creates, and the list of references to them it returns
StandardizedObjects(r, n) ==
    IF r.kind = "json" THEN Take(PadWithEmpty(r.value, n), n)
    ELSE IF r.kind = "nojson" THEN << <<>> >>
    ELSE [i \in 1..n |-> <<Item("error", "Failed to extract: " \o r.kind)>>]

StandardizedRefs(r, n, base) ==
    IF r.kind = "nojson" THEN [i \in 1..n |-> base + 1]
    ELSE [i \in 1..n |-> base + i]

\* the assignment of service_scraper.py:202 without the test of line 201 on
\* result["error"]
WithServicesUnchecked(result, i, refs) ==
    IF i <= Len(refs) THEN [result EXCEPT !.services = refs[i]] ELSE result

\* service_scraper.py:200-202
WithServices(result, i, refs) ==
    IF result.error = None /\ i <= Len(refs)
    THEN [result EXCEPT !.services = refs[i]]
    ELSE result

\* service_scraper.py:197-202
ExtractStandardized ==
    /\ spc = "fetch"
    /\ Len(service_results) = Len(urls)
    /\ IF \E i \in 1..Len(page_texts) : page_texts[i] # None
       THEN \E r \in ServiceResponses(Len(page_texts)) :
              LET refs == StandardizedRefs(r, Len(page_texts), Len(heap))
              IN  /\ service_response' = Some(r)
                  /\ standardized_services' = refs
                  /\ heap' = heap \o StandardizedObjects(r, Len(page_texts))
                  /\ service_results' =
                        [i \in 1..Len(service_results) |->
                           WithServices(service_results[i], i, refs)]
       ELSE UNCHANGED <<service_response, standardized_services, heap, service_results>>
    /\ cursor' = 1
    /\ spc' = "contact"
    /\ UNCHANGED <<partsVars, textVars, toolVars, urls, page_texts, probes>>

\* service_scraper.py:209: the loop goes to the next record, or ends
NextRecord ==
    /\ cursor' = cursor + 1
    /\ spc' = IF cursor + 1 > Len(service_results) THEN "returned" ELSE "contact"

\* service_scraper.py:218-223
AiContactUrl(result) == DictGet(heap[result.services], "contact_url", "")

\* service_scraper.py:209-236: one round of the contact loop, up to the
\* await of find_contact_url
VerifyContact ==
    /\ spc = "contact"
    /\ cursor <= Len(service_results)
    /\ LET result == service_results[cursor]
       IN  IF result.error # None THEN NextRecord
           ELSE IF AiContactUrl(result) # "" /\ StartsWith(AiContactUrl(result), "http")
                THEN NextRecord
           ELSE spc' = "crawl" /\ UNCHANGED cursor
    /\ UNCHANGED <<partsVars, textVars, toolVars, urls, page_texts, service_results, heap,
                   service_response, standardized_services, probes>>

Probe(i, op, target, answer, link) ==
    [rec |-> i, op |-> op, target |-> target, answer |-> answer, link |-> link]

\* service_scraper.py:236-258: find_contact_url answers; the HEAD request
\* of the derived URL follows without an await
CrawlReturns ==
    /\ spc = "crawl"
    /\ LET result == service_results[cursor]
           homepage_url == Homepage(result.url)
           derived_url == derive_contact_url(result.url)
           write(contact) ==
               heap' = [heap EXCEPT ![result.services] = DictSet(@, "contact_url", contact)]
       IN  \E c \in CrawlAnswers(result.url) :
             LET crawl == Probe(cursor, "crawl", homepage_url, c.kind, c.link)
             IN  IF c.kind = "found"
                 THEN write(c.link) /\ probes' = Append(probes, crawl)
                 ELSE IF c.kind = "raise"
                 THEN write(homepage_url) /\ probes' = Append(probes, crawl)
                 ELSE \E h \in HeadAnswers :
                        /\ write(IF h = "200" THEN derived_url ELSE homepage_url)
                        /\ probes' = probes \o <<crawl, Probe(cursor, "head", derived_url, h, "")>>
    /\ NextRecord
    /\ UNCHANGED <<partsVars, textVars, toolVars, urls, page_texts, service_results,
                   service_response, standardized_services>>

NextService ==
    \/ ScrapePage
    \/ ExtractStandardized
    \/ VerifyContact
    \/ CrawlReturns

SpecService == InitService /\ [][NextService]_vars

(***************************************************************************)
(* Properties                                                              *)
(***************************************************************************)
\* the gather has been joined and its results classified
Classified == pc \in {"respond", "done", "pass1", "pass2", "pass3"}

Collected == failed_results \o spec_extractable_results

RecordsOf(records, url) == {k \in 1..Len(records) : records[k].url = url}

\* C1: once scrape_multiple has joined the gather, every one of the N sources
\* has exactly one record, with its own url and score: a source whose
\* acquisition raised has it among the failures, with a non-empty error and no
\* text, every other source has it among the successes, with its text and no
\* error; a sibling's failure removes none.
C1_EveryAcquisitionHasOneOutcome ==
    Classified =>
        /\ Len(Collected) = Len(pdf_search_results)
        /\ \A i \in Tasks :
             LET url == pdf_search_results[i].url
                 failedAt == RecordsOf(failed_results, url)
                 okAt == RecordsOf(spec_extractable_results, url)
                 acquired == /\ fetched[i] # None
                             /\ fetched[i][1].kind = "body"
                             /\ results[i].md # None
                             /\ results[i].error = None
             IN  /\ taskpc[i] = "done"
                 /\ Cardinality(failedAt) + Cardinality(okAt) = 1
                 /\ \A k \in failedAt :
                      /\ ~acquired
                      /\ failed_results[k].score = Some(ScoreOf(pdf_search_results[i]))
                      /\ failed_results[k].error # None
                      /\ failed_results[k].error[1] # ""
                 /\ \A k \in okAt :
                      /\ acquired
                      /\ spec_extractable_results[k].score
                           = Some(ScoreOf(pdf_search_results[i]))
                      /\ spec_extractable_results[k].md = results[i].md

C1_Witness ==
    /\ Classified
    /\ Len(pdf_search_results) = 3
    /\ Len(spec_extractable_results) = 1
    /\ \E k \in 1..Len(failed_results) :
         StartsWith(failed_results[k].error[1], "Failed to download")
    /\ \E k \in 1..Len(failed_results) :
         StartsWith(failed_results[k].error[1], "Failed to extract")

BadBody(resp) == resp.kind = "body" /\ (~resp.magic \/ resp.size < MinPdfBytes)

\* C2: an acquisition whose body lacks the %PDF magic or has fewer than 1024
\* bytes ends as a failure (error set, no text) and its body is never handed
\* to the markdown extraction; a body that download_pdf returned passed both
\* checks.
C2_InvalidBodyIsRejected ==
    \A i \in Tasks :
        /\ (fetched[i] # None /\ BadBody(fetched[i][1])) =>
              /\ taskpc[i] = "done"
              /\ Truthy(results[i].error)
              /\ results[i].md = None
              /\ pdf_content[i] = None
        /\ pdf_content[i] # None =>
              /\ pdf_content[i][1].magic
              /\ pdf_content[i][1].size >= MinPdfBytes

C2_Witness ==
    \E i \in Tasks :
        /\ fetched[i] # None
        /\ fetched[i][1].kind = "body"
        /\ fetched[i][1].magic
        /\ fetched[i][1].size = MinPdfBytes - 1
        /\ taskpc[i] = "done"

\* C3: every record collected by scrape_multiple has no text if its error is
\* set, and a text of at least 100 characters after trimming if it is not.
C3_ErrorMeansNoText ==
    Classified =>
        \A k \in 1..Len(Collected) :
            IF Collected[k].error # None
            THEN Collected[k].md = None
            ELSE /\ Collected[k].md # None
                 /\ Collected[k].md[1].stripped >= MinMarkdownChars

ComparisonCalls == {"pass2", "pass3"}

\* C4: the cross-document extraction runs only with at least 3 acquired
\* sources; with 1 or 2, scrape_multiple makes no model call and returns the
\* successes followed by the failures; with none, the failures only.
C4_ComparisonNeedsThree ==
    LET acquired == Len(spec_extractable_results)
    IN  /\ (SeqToSet(ai_calls) \cap ComparisonCalls # {}) => acquired >= MinComparablePdfs
        /\ pc \in {"pass1", "pass2", "pass3"} => acquired >= MinComparablePdfs
        /\ (pc \in {"respond", "done"} /\ acquired < MinComparablePdfs) =>
              /\ SeqToSet(ai_calls) \cap ComparisonCalls = {}
              /\ specs = <<>>
              /\ Len(scrape_results) = acquired + Len(failed_results)
              /\ SubSeq(scrape_results, acquired + 1, Len(scrape_results)) = failed_results
              /\ {scrape_results[k] : k \in 1..acquired} = SeqToSet(spec_extractable_results)
              /\ \A k \in 1..(acquired - 1) :
                    scrape_results[k].score[1] >= scrape_results[k + 1].score[1]

C4_Witness ==
    /\ pc = "done"
    /\ Len(spec_extractable_results) = 2
    /\ Len(failed_results) = 1
    /\ scrape_results[3].error # None

Pass2Answered == ai_calls # <<>> /\ ai_calls[Len(ai_calls)] = "pass2"

\* C5: whatever the Pass 2 model call answers, extract_standardized_specs goes
\* on to Pass 3 (with the fallback columns when the selection is unusable) and
\* does not abort.
C5_Pass2FailureFallsBack ==
    (~debug /\ Pass2Answered) => pc = "pass3" /\ raised = None

\* C6: search_parts raises only when the search returned no PDF URL.
C6_RaisesOnlyWithoutSources ==
    (~debug /\ raised # None) => pdf_search_results = <<>>

Parts == response[1].parts

\* C7: no record of a response has empty specs and no error (the response
\* carries no warning field).
C7_DegradedIsMarked ==
    pc = "done" =>
        \A k \in 1..Len(Parts) :
            ~(Parts[k].specs[1] = <<>> /\ Parts[k].error = None)

\* the attribute names Pass 1 finds in a source's own text
OwnAttributes(part) ==
    IF part.md = None THEN {}
    ELSE {Lower(l.key) : l \in SeqToSet(extract_specs_with_regex(part.md[1]))}

\* C8: every key of a record's specs matches, exactly or case-insensitively,
\* an attribute name of that source's own extracted attributes.
C8_KeysExistInSource ==
    pc = "done" =>
        \A k \in 1..Len(Parts) :
            \A key \in DictKeySet(Parts[k].specs[1]) :
                Lower(key) \in OwnAttributes(Parts[k])

\* C9: every column of the response occurs in the specs of at least 2 parts.
C9_ColumnsHaveTwoSources ==
    pc = "done" =>
        \A c \in SeqToSet(response[1].spec_column_names) :
            Cardinality({k \in 1..Len(Parts) : DictHas(Parts[k].specs[1], c)}) >= 2

ValuedKeys(part) ==
    {it.k : it \in {x \in SeqToSet(part.specs[1]) : x.v # "N/A"}}

\* C10: after a comparison, every two returned sources share a key both have
\* a value for (the least minimum that can be configured is one key).
C10_SurvivorsShareKeys ==
    (pc = "done" /\ specs # <<>>) =>
        \A i, j \in 1..Len(Parts) :
            i # j => ValuedKeys(Parts[i]) \cap ValuedKeys(Parts[j]) # {}

\* pdf_scraper.py:481, the standardized_key of every selected spec, in order
SelectedKeys ==
    [i \in 1..Len(selected_specs) |-> DictGet(selected_specs[i], "standardized_key", "")]

\* C11: after a comparison, the specs of every returned record have exactly
\* the selected keys, in the order of the selection (a key without a value
\* holds "N/A"): no key outside the selection, no selected key missing.
C11_SpecsHaveSelectedKeys ==
    (pc = "done" /\ specs # <<>>) =>
        \A k \in 1..Len(Parts) : DictKeys(Parts[k].specs[1]) = SelectedKeys

OverCeiling(resp) ==
    /\ resp.kind = "body"
    /\ resp.magic
    /\ resp.size >= MinPdfBytes
    /\ resp.opens
    /\ resp.pages > MaxPdfPages

\* C12: a well-formed PDF of more than 10 pages ends as a failure record
\* (error set, no text), whatever its content.
C12_OverCeilingIsRejected ==
    \A i \in Tasks :
        (fetched[i] # None /\ OverCeiling(fetched[i][1]) /\ taskpc[i] = "done") =>
            /\ Truthy(results[i].error)
            /\ results[i].md = None

\* C15: no part of a response carries the raw document text: md is None in
\* every PartResponse, for acquired and failed sources alike (PartResponse
\* has no score field).
C15_NoWorkingFields ==
    pc = "done" => \A k \in 1..Len(Parts) : Parts[k].md = None

\* the model's answer to the batched Pass 3 call had no JSON array, or one
\* that json.loads rejects
Unparseable(answer) == answer # None /\ answer[1].kind \in {"nojson", "badjson"}

Pass3Calls == {k \in 1..Len(ai_calls) : ai_calls[k] = "pass3"}

\* C13: when the Pass 3 response for the whole batch cannot be parsed, the
\* batch is split and the smaller batches are asked again: by the time the
\* extraction has ended, more than one Pass 3 call has been made.
C13_UnparseableBatchIsSplit ==
    (pc \in {"respond", "done"} /\ Unparseable(response_text)) =>
        Cardinality(Pass3Calls) >= 2

\* C18: while the download of one source is in flight, the download of every
\* source of the batch that has not started yet is able to start.
C18_DownloadsOverlap ==
    \A i, j \in Tasks :
        (taskpc[i] = "requesting" /\ taskpc[j] = "ready") => ENABLED TaskRequest(j)

\* C16: both searches always provide a contact URL; for the parts search,
\* every error-free part of a response carries a non-empty contact_url.
C16_PartsCarryContactUrl ==
    pc = "done" =>
        \A k \in 1..Len(Parts) :
            Parts[k].error = None => Truthy(Parts[k].contact_url)

\* position of a source in the list handed to scrape_multiple
InputPos(url) == CHOOSE i \in 1..Len(pdf_search_results) : pdf_search_results[i].url = url

\* a ranks before b: higher score, or the same score and earlier in the input
RanksBefore(a, b) ==
    \/ a.score[1] > b.score[1]
    \/ a.score[1] = b.score[1] /\ InputPos(a.url) < InputPos(b.url)

RECURSIVE Merged(_)
\* the same characters with adjacent runs of one character joined
Merged(text) ==
    IF Len(text) <= 1 THEN text
    ELSE LET rest == Merged(Tail(text))
         IN  IF Head(text).c = Head(rest).c
             THEN <<Run(Head(text).c, Head(text).n + Head(rest).n)>> \o Tail(rest)
             ELSE <<Head(text)>> \o rest

\* the characters of p are the first characters of text
IsPrefix(p, text) ==
    LET a == Merged(p)
        b == Merged(text)
    IN  \/ a = <<>>
        \/ /\ Len(a) <= Len(b)
           /\ SubSeq(a, 1, Len(a) - 1) = SubSeq(b, 1, Len(a) - 1)
           /\ a[Len(a)].c = b[Len(a)].c
           /\ a[Len(a)].n <= b[Len(a)].n

\* C19: the text of a document placed in a prompt is a prefix of the
\* document's text, is the whole text when that has at most 20,000
\* characters, and never has more than 20,000 characters, in the
\* single-document extraction and in Pass 3 alike.
C19_PromptTextIsHeadTruncation ==
    /\ tpc = "single" => prompt_text # None
    /\ tpc = "pass3" => (prompt_text = None <=> pdf_md = <<>>)
    /\ prompt_text # None =>
          /\ IsPrefix(prompt_text[1], pdf_md)
          /\ TextLen(pdf_md) <= 20000 => prompt_text[1] = pdf_md
          /\ TextLen(prompt_text[1]) <= 20000
          /\ TextLen(pdf_md) > 20000 => TextLen(prompt_text[1]) = 20000

C19_Witness ==
    /\ tpc = "pass3"
    /\ Len(pdf_md) = 2
    /\ pdf_md[1].c # pdf_md[2].c
    /\ TextLen(pdf_md) = 20001
    /\ prompt_text # None
    /\ TextLen(prompt_text[1]) = 20000
    /\ prompt_text[1] # pdf_md

\* the crawls and HEAD requests made for record i, in order
ProbesOf(i) == SelectIdx(probes, {k \in 1..Len(probes) : probes[k].rec = i}, 1)

\* the contact_url record i holds
ContactOf(i) == DictGet(heap[service_results[i].services], "contact_url", "")

\* the contact_url of the element of the model's array stored on record i
AiExtracted(i) ==
    IF /\ service_response # None
       /\ service_response[1].kind = "json"
       /\ i <= Len(standardized_services)
       /\ i <= Len(service_response[1].value)
    THEN DictGet(service_response[1].value[i], "contact_url", "")
    ELSE ""

\* C17: in the service search the contact URL of an error-free record is
\* (1) the AI-extracted contact_url if it is non-empty and starts with
\* "http", and then no crawl and no HEAD request is made for the record;
\* else (2) the link the crawl found, and no HEAD request is made; else
\* (3) the derived /contact URL if the HEAD request to it answered 200;
\* else (4) the homepage, also when the crawl or the HEAD request raised.
C17_ContactPriority ==
    spc = "returned" =>
        \A i \in 1..Len(service_results) :
            service_results[i].error = None =>
                LET url == service_results[i].url
                    made == ProbesOf(i)
                IN  IF AiExtracted(i) # "" /\ StartsWith(AiExtracted(i), "http")
                    THEN made = <<>> /\ ContactOf(i) = AiExtracted(i)
                    ELSE /\ made # <<>>
                         /\ made[1].op = "crawl"
                         /\ made[1].answer = "found" =>
                               Len(made) = 1 /\ ContactOf(i) = made[1].link
                         /\ made[1].answer = "raise" =>
                               Len(made) = 1 /\ ContactOf(i) = Homepage(url)
                         /\ made[1].answer = "none" =>
                               /\ Len(made) = 2
                               /\ made[2].op = "head"
                               /\ made[2].target = Homepage(url) \o "/contact"
                               /\ ContactOf(i) = IF made[2].answer = "200"
                                                 THEN made[2].target ELSE Homepage(url)

\* the first loop of scrape_multiple has handled every URL
FirstPassOver == spc \in {"fetch", "contact", "crawl", "returned"}
                 /\ Len(service_results) = Len(urls)

\* C21: the list of texts handed to the standardized extraction has one
\* entry per input URL, and entry i is the text fetched from urls[i] (or
\* None), whatever the fetches did.
C21_TextsAlignWithUrls ==
    FirstPassOver =>
        /\ Len(page_texts) = Len(urls)
        /\ \A i \in 1..Len(page_texts) : page_texts[i] # None => page_texts[i][1] = i

\* C22: after the contact pass, every error-free record without a valid
\* AI-extracted contact URL holds a contact_url made from its own URL: it
\* starts with that record's homepage.
C22_ContactIsOwn ==
    spc = "returned" =>
        \A i \in 1..Len(service_results) :
            (/\ service_results[i].error = None
             /\ ~(AiExtracted(i) # "" /\ StartsWith(AiExtracted(i), "http"))) =>
                StartsWith(ContactOf(i), Homepage(service_results[i].url))

\* C28: a result whose error was set in the first pass is left as it is by
\* every later step: same url, error and services object, that object stays
\* the empty map (no contact_url), and no crawl or HEAD request is made for
\* it; and scrape_multiple returns one result per input URL, in input order.
C28_FailedResultsUntouched ==
    [][/\ \A i \in 1..Len(service_results) :
            service_results[i].error # None =>
                /\ service_results'[i] = service_results[i]
                /\ heap'[service_results[i].services] = <<>>
                /\ \A k \in 1..Len(probes') : probes'[k].rec # i
       /\ spc' = "returned" =>
            /\ Len(service_results') = Len(urls)
            /\ \A i \in 1..Len(urls) : service_results'[i].url = urls[i]]_vars

C28_Witness ==
    /\ spc = "returned"
    /\ Len(service_results) = 2
    /\ service_results[1].error = Some("No text could be extracted from page")
    /\ service_results[2].error = None
    /\ service_response # None
    /\ \E k \in 1..Len(probes) : probes[k].rec = 2

\* the entries of the model's array, as many as there are inputs: the first
\* n of a longer array, a shorter one followed by filler
CutOrPadded(array, n, filler) ==
    [i \in 1..n |-> IF i <= Len(array) THEN array[i] ELSE filler]

C24_Pass1ReadsWhatPass3Receives ==
    regex_text # None =>
        /\ TextLen(regex_text[1]) <= 20000
        /\ IsPrefix(regex_text[1], pdf_md)

\* the places (part, position in its specs) where key occurs
Occurrences(key) ==
    UNION { { <<k, j>> : j \in {j \in 1..Len(Parts[k].specs[1]) :
                                  Parts[k].specs[1][j].k = key} } :
            k \in 1..Len(Parts) }

\* key a occurs, scanning the parts in order, before key b does
FirstSeenBefore(a, b) ==
    \E x \in Occurrences(a) :
        \A y \in Occurrences(b) : x[1] < y[1] \/ (x[1] = y[1] /\ x[2] < y[2])

\* C25: spec_column_names holds every key other than "error" of any part's
\* specs exactly once, in the order of first occurrence over the parts in
\* response order, and nothing else.
C25_ColumnsAreOrderedUnion ==
    pc = "done" =>
        LET columns == response[1].spec_column_names
            keys == UNION {DictKeySet(Parts[k].specs[1]) : k \in 1..Len(Parts)}
        IN  /\ SeqToSet(columns) = keys \ {"error"}
            /\ Cardinality(SeqToSet(columns)) = Len(columns)
            /\ \A i, j \in 1..Len(columns) :
                 i < j => FirstSeenBefore(columns[i], columns[j])

C25_Witness ==
    /\ pc = "done"
    /\ response[1].spec_column_names = <<"Voltage", "weight", "Flow Rate">>
    /\ \E k \in 1..Len(Parts) : DictHas(Parts[k].specs[1], "error")

(***************************************************************************)
(* GroqClient.query (app/services/groq_client.py:8-35): a while loop that  *)
(* calls _query until it returns or until QUERY_MAX_RETRIES calls raised.  *)
(* _query passes timeout=QUERY_TIMEOUT to the API, so each call ends.      *)
(***************************************************************************)
QUERY_MAX_RETRIES == 3

\* what one call of _query does: it returns the completion or it raises
QueryResults == {"completion A", "completion B"}
QueryErrors == {"timeout", "rate limit", "connection reset", "bad request"}
Returned(r) == [kind |-> "returned", value |-> r]
Raised(e) == [kind |-> "raised", value |-> e]
QueryOutcomes == {Returned(r) : r \in QueryResults} \cup {Raised(e) : e \in QueryErrors}

InitGroq ==
    /\ InitParts
    /\ ~debug
    /\ TextOff
    /\ ServiceOff
    /\ FinderOff
    /\ ComparatorOff
    /\ gpc = "query"
    /\ retries = 0
    /\ attempts = <<>>
    /\ query_result = None
    /\ query_raised = None

GivesUpLate(n) == n > QUERY_MAX_RETRIES

\* groq_client.py:34
GivesUp(n) == n >= QUERY_MAX_RETRIES

\* groq_client.py:20-35: one round of the loop.  A function whose loop ends
\* without a return returns None: gpc "returned" with query_result None.
QueryAttempt(outcome) ==
    /\ gpc = "query"
    /\ retries < QUERY_MAX_RETRIES
    /\ attempts' = Append(attempts, outcome)
    /\ IF outcome.kind = "returned"
       THEN /\ gpc' = "returned"
            /\ query_result' = Some(outcome.value)
            /\ UNCHANGED <<retries, query_raised>>
       ELSE /\ retries' = retries + 1
            /\ IF GivesUp(retries')
               THEN /\ gpc' = "raised"
                    /\ query_raised' = Some(outcome.value)
                    /\ UNCHANGED query_result
               ELSE /\ gpc' = IF retries' < QUERY_MAX_RETRIES THEN "query" ELSE "returned"
                    /\ UNCHANGED <<query_result, query_raised>>
    /\ UNCHANGED <<partsVars, textVars, serviceVars, finderVars, comparatorVars>>

NextGroq == \E outcome \in QueryOutcomes : QueryAttempt(outcome)

\* every call of _query ends (timeout=QUERY_TIMEOUT, groq_client.py:46-57)
SpecGroq == InitGroq /\ [][NextGroq]_vars /\ WF_vars(NextGroq)

QueryEnded == gpc \in {"returned", "raised"}

AllRaised(log) == \A i \in 1..Len(log) : log[i].kind = "raised"

\* what the calls made so far allow query to have done
QueryShape ==
    /\ Len(attempts) <= QUERY_MAX_RETRIES
    /\ gpc = "query" => Len(attempts) < QUERY_MAX_RETRIES /\ AllRaised(attempts)
    /\ gpc = "returned" =>
          /\ attempts # <<>>
          /\ AllRaised(SubSeq(attempts, 1, Len(attempts) - 1))
          /\ attempts[Len(attempts)].kind = "returned"
          /\ query_result = Some(attempts[Len(attempts)].value)
          /\ query_raised = None
    /\ gpc = "raised" =>
          /\ Len(attempts) = QUERY_MAX_RETRIES
          /\ AllRaised(attempts)
          /\ query_raised = Some(attempts[QUERY_MAX_RETRIES].value)
          /\ query_result = None

\* C27: GroqClient.query ends after at most 3 calls of _query; when it has
\* returned, the last call is the first that did not raise and its result is
\* the value returned (never None); when it has raised, exactly 3 calls were
\* made, all raised, and the exception is the third one's.
C27_QueryEndsWithinThreeAttempts == []QueryShape /\ <>QueryEnded

\* two calls raised one exception, the third another one, which query re-raised
C27_Witness ==
    /\ gpc = "raised"
    /\ Len(attempts) = QUERY_MAX_RETRIES
    /\ attempts[1].value # attempts[3].value
    /\ query_raised = Some(attempts[3].value)

(***************************************************************************)
(* search_datasheets (app/api/search/datasheets.py:40-94);                 *)
(* validate_pdf_urls of app/api/local_testing/pdf_finder.py:400-500 runs   *)
(* the same loop with the same rank_url_by_supplier_llm.                   *)
(***************************************************************************)
MaxUrls == 2             \* URLs the search returns, at most
MaxDatasheets == 2       \* max_results, at most

DatasheetUrls ==
    { "https://acme.com/pump.pdf",
      "https://ebay.com/pump.pdf",
      "https://EBAY.com/Pump.PDF",
      "https://acme.com/rfq/pump.pdf",
      "https://acme.com/catalog.pdf",
      "https://parts.org/pump.pdf" }

\* what generate_search_prompt gives as supplier_info
SupplierInfos ==
    { None,
      Some(<<>>),
      Some(<<Item("tier1_domains", <<"ACME.com">>)>>),
      Some(<<Item("tier1_domains", <<>>), Item("tier2_domains", <<"ebay.com">>)>>),
      Some(<<Item("tier3_domains", <<".org">>)>>) }

\* datasheets.py:33
gray_market == <<"alibaba", "aliexpress", "dhgate", "ebay", "rfq", "quote">>

\* datasheets.py:56
catalog_words == <<"catalog", "catalogue", "manual", "guide", "brochure", "series-">>

AnyWordIn(words, str) == \E i \in 1..Len(words) : Contains(str, words[i])

\* datasheets.py:15-30: the domains of one tier, matched lowered or as they are
TierMatches(info, tier, url_lower, lowered) ==
    /\ DictHas(info, tier)
    /\ LET domains == DictGet(info, tier, <<>>)
       IN  \E i \in 1..Len(domains) :
              Contains(url_lower, IF lowered THEN Lower(domains[i]) ELSE domains[i])

\* datasheets.py:7-38
rank_url_by_supplier_llm(url, info) ==
    IF info = None \/ info[1] = <<>> THEN 2
    ELSE LET url_lower == Lower(url)
         IN  IF TierMatches(info[1], "tier1_domains", url_lower, TRUE) THEN 1
             ELSE IF TierMatches(info[1], "tier2_domains", url_lower, TRUE) THEN 2
             ELSE IF TierMatches(info[1], "tier3_domains", url_lower, FALSE) THEN 3
             ELSE IF AnyWordIn(gray_market, url_lower) THEN 999
             ELSE 4

ScoredUrl(url, score) == [url |-> url, score |-> score]

\* list.sort(key=lambda x: x[1]): stable, equal scores keep their order
InsertByScoreAsc(sorted, x) ==
    LET n == Cardinality({i \in 1..Len(sorted) : sorted[i].score <= x.score})
    IN  SubSeq(sorted, 1, n) \o <<x>> \o SubSeq(sorted, n + 1, Len(sorted))

RECURSIVE SortByScoreAsc(_)
SortByScoreAsc(s) ==
    IF s = <<>> THEN <<>>
    ELSE InsertByScoreAsc(SortByScoreAsc(SubSeq(s, 1, Len(s) - 1)), s[Len(s)])

InitFinder ==
    /\ InitParts
    /\ ~debug
    /\ TextOff
    /\ ServiceOff
    /\ GroqOff
    /\ ComparatorOff
    /\ fpc = "search"
    /\ max_results \in 1..MaxDatasheets
    /\ supplier_info = None
    /\ pdf_urls = <<>>
    /\ url_cursor = 0
    /\ validated_with_scores = <<>>
    /\ validated = None

\* datasheets.py:45-49: the search prompt, the search and the query's specs
SearchDuckDuckGo(info, found) ==
    /\ fpc = "search"
    /\ Len(found) <= max_results * 3
    /\ supplier_info' = info
    /\ pdf_urls' = found
    /\ url_cursor' = 1
    /\ fpc' = "validate"
    /\ UNCHANGED <<max_results, validated_with_scores, validated>>
    /\ UNCHANGED <<partsVars, textVars, serviceVars, groqVars, comparatorVars>>

\* what the web and the model answer for one URL: the GET fails, the bytes
\* are no PDF, the model finds the URL not to match the query's specs
\* (asked only when there are specs), or nothing stops the URL
UrlAnswers == {"get fails", "not a pdf", "spec mismatch", "pdf"}

\* datasheets.py:51-90: one round of the for loop
ValidateUrl(answer) ==
    /\ fpc = "validate"
    /\ url_cursor <= Len(pdf_urls)
    /\ LET url == pdf_urls[url_cursor]
           supplier_score == rank_url_by_supplier_llm(url, supplier_info)
       IN  validated_with_scores' =
              IF AnyWordIn(catalog_words, Lower(url)) THEN validated_with_scores
              ELSE IF answer # "pdf" THEN validated_with_scores
              ELSE IF supplier_score = 999 THEN validated_with_scores
              ELSE Append(validated_with_scores, ScoredUrl(url, supplier_score))
    /\ url_cursor' = url_cursor + 1
    /\ UNCHANGED <<fpc, max_results, supplier_info, pdf_urls, validated>>
    /\ UNCHANGED <<partsVars, textVars, serviceVars, groqVars, comparatorVars>>

\* datasheets.py:92-94
ReturnValidated ==
    /\ fpc = "validate"
    /\ url_cursor > Len(pdf_urls)
    /\ LET ranked == Take(SortByScoreAsc(validated_with_scores), max_results)
       IN  validated' = Some([i \in 1..Len(ranked) |-> ranked[i].url])
    /\ fpc' = "returned"
    /\ UNCHANGED <<max_results, supplier_info, pdf_urls, url_cursor, validated_with_scores>>
    /\ UNCHANGED <<partsVars, textVars, serviceVars, groqVars, comparatorVars>>

NextFinder ==
    \/ \E info \in SupplierInfos, found \in SeqsUpTo(DatasheetUrls, MaxUrls) :
          SearchDuckDuckGo(info, found)
    \/ \E answer \in UrlAnswers : ValidateUrl(answer)
    \/ ReturnValidated

SpecFinder == InitFinder /\ [][NextFinder]_vars

\* the URL holds one of the terms of the gray-market list, in any case
IsGrayMarket(url) == AnyWordIn(gray_market, Lower(url))

\* C26: no URL holding one of the gray-market terms is in the list that
\* search_datasheets returns, whatever supplier_info and its tier domains are.
C26_NoGrayMarketReturned ==
    validated # None => \A i \in 1..Len(validated[1]) : ~IsGrayMarket(validated[1][i])

(***************************************************************************)
(* SpecComparator.create_comparison_table                                  *)
(* (python-backend/spec_comparator.py:15-82), applied to what              *)
(* PDFScraper.scrape_multiple returns (python-backend/pdf_scraper.py).     *)
(***************************************************************************)
MaxProducts == 2         \* scraped results handed to the comparator, at most

\* the characters of the keys, in the order of their code points
CodePoints == " -0123456789ABCDEFGHIJKLMNOPQRSTUVWXYZ_abcdefghijklmnopqrstuvwxyz"

Ord(c) == CHOOSE i \in 1..Len(CodePoints) : SubSeq(CodePoints, i, i) = c

RECURSIVE StrLess(_, _)
\* a < b on str: the first differing character decides, a prefix is smaller
StrLess(a, b) ==
    IF Len(b) = 0 THEN FALSE
    ELSE IF Len(a) = 0 THEN TRUE
    ELSE LET x == Ord(SubSeq(a, 1, 1))
             y == Ord(SubSeq(b, 1, 1))
         IN  IF x # y THEN x < y
             ELSE StrLess(SubSeq(a, 2, Len(a)), SubSeq(b, 2, Len(b)))

RECURSIVE sorted(_)
\* sorted(a set of str)
sorted(S) ==
    IF S = {} THEN <<>>
    ELSE LET least == CHOOSE k \in S : \A o \in S \ {k} : StrLess(k, o)
         IN  <<least>> \o sorted(S \ {least})

\* spec_comparator.py:31
priority_keys == <<"Part Number", "Manufacturer", "part_number", "manufacturer">>

\* the dicts scrape_multiple leaves in result["specs"]: {} (pdf_scraper.py:192
\* and 293), an extraction error (298) or the model's specs (217)
SpecDicts ==
    { <<>>,
      <<Item("error", "Failed to extract: overloaded")>>,
      <<Item("Voltage", "24 V"), Item("Part Number", "P-100"), Item("current", "2 A")>>,
      <<Item("manufacturer", "Acme"), Item("Weight", "3 kg"),
        Item("Manufacturer", "Acme"), Item("Voltage", "12 V")>>,
      <<Item("part_number", "X9"), Item("Part Number", "X9"), Item("Flow Rate", "2 l/s")>> }

ScrapeErrors == {"No text could be extracted from PDF", "404 Client Error"}

ProductUrl(i) == "https://supplier" \o ToString(i) \o ".example/datasheet.pdf"

\* pdf_scraper.py:190-217: a result with an error keeps specs {}
ScrapedResults(i) ==
    {[url |-> ProductUrl(i), specs |-> <<>>, error |-> Some(e)] : e \in ScrapeErrors}
    \cup {[url |-> ProductUrl(i), specs |-> d, error |-> None] : d \in SpecDicts}

InitComparator ==
    /\ InitParts
    /\ ~debug
    /\ TextOff
    /\ ServiceOff
    /\ GroqOff
    /\ FinderOff
    /\ cpc = "compare"
    /\ \E n \in 0..MaxProducts :
          scraped_results \in [1..n -> UNION {ScrapedResults(i) : i \in 1..n}]
          /\ \A i \in 1..n : scraped_results[i].url = ProductUrl(i)
    /\ comparison = None

HasSpecsOrError(result) == result.specs # <<>>

\* spec_comparator.py:27 and 72
HasSpecs(result) ==
    /\ result.specs # <<>>
    /\ DictGet(result.specs, "error", "") = ""

\* spec_comparator.py:15-43
extract_all_spec_keys(scraped) ==
    LET all_keys == UNION {DictKeySet(scraped[i].specs) :
                              i \in {j \in 1..Len(scraped) : HasSpecs(scraped[j])}}
        first == SelectIdx(priority_keys,
                           {i \in 1..Len(priority_keys) : priority_keys[i] \in all_keys}, 1)
    IN  first \o sorted(all_keys \ SeqToSet(priority_keys))

\* spec_comparator.py:65-78
ProductData(result, all_spec_keys) ==
    [url |-> result.url,
     error |-> result.error,
     specs |-> [k \in 1..Len(all_spec_keys) |->
                  Item(all_spec_keys[k],
                       IF HasSpecs(result) /\ DictHas(result.specs, all_spec_keys[k])
                       THEN Some(DictGet(result.specs, all_spec_keys[k], ""))
                       ELSE None)]]

\* spec_comparator.py:45-82
CreateComparisonTable ==
    /\ cpc = "compare"
    /\ LET all_spec_keys == extract_all_spec_keys(scraped_results)
       IN  comparison' =
              Some([spec_names |-> all_spec_keys,
                    products |-> [i \in 1..Len(scraped_results) |->
                                    ProductData(scraped_results[i], all_spec_keys)]])
    /\ cpc' = "returned"
    /\ UNCHANGED scraped_results
    /\ UNCHANGED <<partsVars, textVars, serviceVars, groqVars, finderVars>>

NextComparator == CreateComparisonTable

SpecComparator == InitComparator /\ [][NextComparator]_vars

\* the positions of the priority keys in names come first and follow the
\* order of priority_keys; the other names ascend in str order
PriorityThenSorted(names) ==
    \A i, j \in 1..Len(names) :
       i < j =>
          LET pi == {p \in 1..Len(priority_keys) : priority_keys[p] = names[i]}
              pj == {p \in 1..Len(priority_keys) : priority_keys[p] = names[j]}
          IN  /\ names[i] # names[j]
              /\ pj # {} => pi # {} /\ (\A p \in pi, q \in pj : p < q)
              /\ pi = {} /\ pj = {} => StrLess(names[i], names[j])

====
